---- MODULE Spec2Model ----
(***************************************************************************)
(* Campus_News_Watcher: the daily report pipeline of src/daily_report.py.  *)
(*                                                                         *)
(*   SpecScore      score_item_with_deepseek as a three step function      *)
(*   SpecPool       ThreadPoolExecutor.map over the candidate items        *)
(*   SpecRecommend  personalized_recommendations on an arbitrary frame     *)
(*   Spec           main(), run after run, sharing data/seen_items.csv     *)
(*                                                                         *)
(* Cells of a pandas frame read from CSV are modelled by what read_csv     *)
(* yields: an empty field is the float NaN, any other field is text.       *)
(* Scores are floats with integral values, modelled as integers.           *)
(***************************************************************************)
EXTENDS Integers, Sequences, FiniteSets, TLC

VARIABLES
    \* score_item_with_deepseek (SpecScore)
    sc_pc, sc_item, sc_resp, sc_ret,
    \* the thread pool of personalized_recommendations (SpecPool)
    pl_pc, pl_items, pl_workers, pl_queue, pl_running, pl_fut, pl_done_order,
    pl_scores, pl_calls,
    \* main() (Spec, SpecRecommend)
    pc, store, batch, seen_links, df, recent, cfg, candidates, scores,
    report, outcome, calls, store0, loaded, saved, prev_report, written

scoreVars == <<sc_pc, sc_item, sc_resp, sc_ret>>
poolVars == <<pl_pc, pl_items, pl_workers, pl_queue, pl_running, pl_fut,
              pl_done_order, pl_scores, pl_calls>>
mainVars == <<pc, store, batch, seen_links, df, recent, cfg, candidates,
              scores, report, outcome, calls, store0, loaded, saved,
              prev_report, written>>
vars == <<scoreVars, poolVars, mainVars>>

----------------------------------------------------------------------------
(* Bounds of the model. *)

\* longest raw response of the scoring model, in characters
MaxLen == 3
\* most candidate items handed to the thread pool
MaxPoolItems == 3
\* largest max_workers
MaxWorkers == 2
\* items in the feed universe
NumItems == 4
\* largest max_candidates and top_n
MaxTunable == 2
\* most rows of the frame handed to personalized_recommendations alone
MaxRecent == 3

----------------------------------------------------------------------------
(* Cells and conversions. *)

\* the float NaN that read_csv yields for an empty field
NaN == "<NaN>"

\* str(cell): str(float('nan')) is 'nan', text is itself
Str(cell) == IF cell = NaN THEN "nan" ELSE cell

\* bool(cell): an empty string is falsy, NaN and other text are truthy
Truthy(cell) == cell # ""

\* cell or "": keeps a truthy cell (NaN included)
OrEmpty(cell) == IF Truthy(cell) THEN cell ELSE ""

\* str.strip() of the text cells used by the model
StripText(s) == IF s = " " THEN "" ELSE s

\* pd.to_datetime(errors="coerce"): NaT for what does not parse
NaT == 0

ToDatetime(raw) == IF raw < 1 THEN NaT ELSE raw

Min2(a, b) == IF a < b THEN a ELSE b

Max2(a, b) == IF a > b THEN a ELSE b

----------------------------------------------------------------------------
(* score_item_with_deepseek *)

Alphabet == {"0", "1", "9", "-", " ", "x"}

Digits == {"0", "1", "9"}

DigitVal(c) == CASE c = "0" -> 0 [] c = "1" -> 1 [] c = "9" -> 9

Contents == UNION {[1..n -> Alphabet] : n \in 0..MaxLen}

\* the outcomes of client.chat.completions.create: an exception, a message
\* whose content is None, or a message with text
Responses ==
    {[kind |-> "error", content |-> <<>>], [kind |-> "none", content |-> <<>>]}
    \cup {[kind |-> "text", content |-> c] : c \in Contents}

RECURSIVE LStrip(_)
LStrip(s) == IF s # <<>> /\ Head(s) = " " THEN LStrip(Tail(s)) ELSE s

RECURSIVE RStrip(_)
RStrip(s) ==
    IF s # <<>> /\ s[Len(s)] = " " THEN RStrip(SubSeq(s, 1, Len(s) - 1)) ELSE s

Strip(s) == RStrip(LStrip(s))

RECURSIVE DropNonDigits(_)
DropNonDigits(s) ==
    IF s = <<>> \/ Head(s) \in Digits THEN s ELSE DropNonDigits(Tail(s))

RECURSIVE TakeDigits(_)
TakeDigits(s) ==
    IF s = <<>> \/ Head(s) \notin Digits THEN <<>>
    ELSE <<Head(s)>> \o TakeDigits(Tail(s))

\* re.findall(r"\d+", content)[0], or <<>> when there is no match
FirstDigits(s) == TakeDigits(DropNonDigits(s))

RECURSIVE ToFloat(_, _)
ToFloat(ds, acc) ==
    IF ds = <<>> THEN acc ELSE ToFloat(Tail(ds), 10 * acc + DigitVal(Head(ds)))

\* a scorer that trusts the raw number
ClampNone(score) == score

\* max(0.0, min(100.0, score))
Clamp(score) == Max2(0, Min2(100, score))

\* lines 185-190: summary.strip() outside the try block; a NaN summary is a
\* float, truthy, and has no strip()
PromptRaises(item) == OrEmpty(item.summary) = NaN

\* lines 213-232: the try block
ParseScore(resp) ==
    IF resp.kind # "text" THEN 0
    ELSE LET digits == FirstDigits(Strip(resp.content))
         IN  IF digits = <<>> THEN 0 ELSE Clamp(ToFloat(digits, 0))

SummaryCells == {"text", " ", NaN}

NoResp == [kind |-> "unset", content |-> <<>>]

ScInit ==
    /\ sc_pc = "prompt"
    /\ sc_item \in [summary : SummaryCells, title : {"title", NaN}]
    /\ sc_resp = NoResp
    /\ sc_ret = -1

ScIdle == sc_pc = "off" /\ sc_item = "none" /\ sc_resp = NoResp /\ sc_ret = -1

ScBuildPrompt ==
    /\ sc_pc = "prompt"
    /\ sc_pc' = IF PromptRaises(sc_item) THEN "raised" ELSE "call"
    /\ UNCHANGED <<sc_item, sc_resp, sc_ret>>

ScCall ==
    /\ sc_pc = "call"
    /\ \E r \in Responses : sc_resp' = r
    /\ sc_pc' = "parse"
    /\ UNCHANGED <<sc_item, sc_ret>>

ScParse ==
    /\ sc_pc = "parse"
    /\ sc_ret' = ParseScore(sc_resp)
    /\ sc_pc' = "returned"
    /\ UNCHANGED <<sc_item, sc_resp>>

----------------------------------------------------------------------------
(* The thread pool of personalized_recommendations, lines 277-286:         *)
(*     with ThreadPoolExecutor(max_workers=max_workers) as executor:       *)
(*         scores = list(executor.map(_score, items))                      *)
(* map submits one future per item, the workers take the queued calls in   *)
(* order and finish them in any order, and the caller collects the         *)
(* results.                                                                *)

\* what the scoring model answers in the pool and in main(): a failed call,
\* "9" and "10"
SomeResponses ==
    {[kind |-> "error", content |-> <<>>],
     [kind |-> "text", content |-> <<"9">>],
     [kind |-> "text", content |-> <<"1", "0">>]}

PoolItem(i, s) == [id |-> i, summary |-> s]

NoFuture == [state |-> "pending", value |-> 0]

\* as_completed order: the pos-th future to finish
CollectCompleted(pos, order) == IF pos <= Len(order) THEN order[pos] ELSE 0

\* executor.map yields the results in the order of the submitted items
CollectIndex(pos, order) == pos

PlInit ==
    /\ pl_pc = "submit"
    /\ \E k \in 1..MaxPoolItems :
         \E ss \in [1..k -> {"text", NaN}] :
            pl_items = [i \in 1..k |-> PoolItem(i, ss[i])]
    /\ pl_workers \in 1..MaxWorkers
    /\ pl_queue = <<>>
    /\ pl_running = [w \in 1..pl_workers |-> 0]
    /\ pl_fut = [i \in 1..Len(pl_items) |-> NoFuture]
    /\ pl_done_order = <<>>
    /\ pl_scores = <<>>
    /\ pl_calls = <<>>

PlIdle ==
    /\ pl_pc = "off"
    /\ pl_items = <<>>
    /\ pl_workers = 0
    /\ pl_queue = <<>>
    /\ pl_running = <<>>
    /\ pl_fut = <<>>
    /\ pl_done_order = <<>>
    /\ pl_scores = <<>>
    /\ pl_calls = <<>>

\* executor.map: submit every item, in order
PoolSubmit ==
    /\ pl_pc = "submit"
    /\ pl_queue' = [i \in 1..Len(pl_items) |-> i]
    /\ pl_pc' = "collect"
    /\ UNCHANGED <<pl_items, pl_workers, pl_running, pl_fut, pl_done_order,
                   pl_scores, pl_calls>>

\* a free worker takes the oldest queued call
WorkerTake(w) ==
    /\ pl_pc \in {"collect", "raised"}
    /\ pl_running[w] = 0
    /\ pl_queue # <<>>
    /\ pl_running' = [pl_running EXCEPT ![w] = Head(pl_queue)]
    /\ pl_fut' = [pl_fut EXCEPT ![Head(pl_queue)].state = "running"]
    /\ pl_queue' = Tail(pl_queue)
    /\ UNCHANGED <<pl_pc, pl_items, pl_workers, pl_done_order, pl_scores,
                   pl_calls>>

\* the worker runs _score(item): score_item_with_deepseek, whose result or
\* exception is stored in the future
WorkerRun(w) ==
    /\ pl_running[w] # 0
    /\ LET i == pl_running[w]
           item == pl_items[i]
       IN  \E resp \in SomeResponses :
             LET raised == PromptRaises(item)
                 value == IF raised THEN 0 ELSE ParseScore(resp)
             IN  /\ pl_fut' = [pl_fut EXCEPT ![i] =
                        [state |-> IF raised THEN "exception" ELSE "finished",
                         value |-> value]]
                 /\ pl_calls' = Append(pl_calls,
                        [item |-> item, failed |-> resp.kind # "text",
                         raised |-> raised, value |-> value])
                 /\ pl_done_order' = Append(pl_done_order, i)
    /\ pl_running' = [pl_running EXCEPT ![w] = 0]
    /\ UNCHANGED <<pl_pc, pl_items, pl_workers, pl_queue, pl_scores>>

\* list(...) takes the next result; a future that holds an exception raises
\* it here, and the futures still queued are cancelled
Collect ==
    /\ pl_pc = "collect"
    /\ Len(pl_scores) < Len(pl_items)
    /\ LET idx == CollectIndex(Len(pl_scores) + 1, pl_done_order)
       IN  /\ idx \in 1..Len(pl_items)
           /\ pl_fut[idx].state \in {"finished", "exception"}
           /\ IF pl_fut[idx].state = "finished"
              THEN /\ pl_scores' = Append(pl_scores, pl_fut[idx].value)
                   /\ UNCHANGED <<pl_pc, pl_queue, pl_fut>>
              ELSE /\ pl_pc' = "raised"
                   /\ pl_queue' = <<>>
                   /\ pl_fut' = [i \in 1..Len(pl_items) |->
                          IF pl_fut[i].state = "pending"
                          THEN [state |-> "cancelled", value |-> 0]
                          ELSE pl_fut[i]]
                   /\ UNCHANGED pl_scores
    /\ UNCHANGED <<pl_items, pl_workers, pl_running, pl_done_order, pl_calls>>

\* every result was taken: the list is built and the pool shuts down
PoolDone ==
    /\ pl_pc = "collect"
    /\ Len(pl_scores) = Len(pl_items)
    /\ pl_pc' = "done"
    /\ UNCHANGED <<pl_items, pl_workers, pl_queue, pl_running, pl_fut,
                   pl_done_order, pl_scores, pl_calls>>

----------------------------------------------------------------------------
(* The feed items. fetch_feed.py writes one row per entry with the columns  *)
(* link, title, summary, published and fetched_at; a field the entry lacks  *)
(* is written empty and read back as NaN. Timestamps are day numbers, -1 a  *)
(* field that does not parse as a date.                                    *)

FeedLinks == <<"a", NaN, "b", "c", "d", "e", "f", "g">>

FeedPublished == <<3, 2, -1, 1, 3, -1, 2, 1>>

FeedFetched == <<1, 1, 2, 1, 1, -1, 1, 1>>

FeedSummary == <<"text", "text", " ", NaN, "text", "text", " ", "text">>

FeedItem(i) ==
    [id |-> i, link |-> FeedLinks[i], published |-> FeedPublished[i],
     fetched_at |-> FeedFetched[i], summary |-> FeedSummary[i]]

AllItems == [i \in 1..NumItems |-> FeedItem(i)]

\* the rows of a frame whose ids are in S, in file order
Rows(frame, S) ==
    LET Keep(x) == x.id \in S IN SelectSeq(frame, Keep)

Range(seq) == {seq[i] : i \in 1..Len(seq)}

Ids(seq) == {seq[i].id : i \in 1..Len(seq)}

\* ts = df["published"].fillna(df["fetched_at"]) after pd.to_datetime
EffTs(item) ==
    LET p == ToDatetime(item.published)
        f == ToDatetime(item.fetched_at)
    IN  IF p # NaT THEN p ELSE f

\* a >= b in a descending sort with na_position="last"
TsGE(a, b) == b = NaT \/ (a # NaT /\ a >= b)

\* get_recent_data: df[ts >= cutoff]; NaT >= cutoff is False
GetRecentData(frame, cutoff) ==
    LET Keep(x) == EffTs(x) # NaT /\ EffTs(x) >= cutoff
    IN  SelectSeq(frame, Keep)

----------------------------------------------------------------------------
(* data/seen_items.csv *)

\* the fields read_csv reads as missing
NaTokens == {"", "nan", "NaN", "NA", "null"}

NoStore == [kind |-> "missing", links |-> {}]

\* load_seen_links: no file, an unreadable file or a file without a link
\* column give the empty set; dropna() drops the fields read as missing
LoadSeenLinks(st) ==
    IF st.kind # "ok" THEN {} ELSE {t \in st.links : t \notin NaTokens}

\* save_seen_links: the file is overwritten with the given links
SaveSeenLinks(links) == [kind |-> "ok", links |-> links]

\* a filter that keeps every row
FilterNone(frame, seen) == frame

\* filter_unseen_items
FilterUnseen(frame, seen) ==
    IF seen = {} THEN frame
    ELSE LET Keep(x) == Str(x.link) \notin seen IN SelectSeq(frame, Keep)

\* a loop over every scored candidate instead of the report
RecommendedLinksOfCandidates(personalized) ==
    {l \in {Str(candidates[i].link) : i \in 1..Len(candidates)} : Truthy(l)}

\* lines 344-370: link = str(row.get("link", "")); if link: add
RecommendedLinks(personalized) ==
    {l \in {Str(personalized[i].item.link) : i \in 1..Len(personalized)} :
        Truthy(l)}

\* a save of the new links alone
MergeOnlyNew(seen, rec) == rec

\* seen_links.update(recommended_links)
MergeSeen(seen, rec) == seen \cup rec

----------------------------------------------------------------------------
(* personalized_recommendations *)

Configs ==
    {c \in [enable : BOOLEAN, user_profile : {"", " ", "p"},
            api_key : BOOLEAN, max_candidates : 1..MaxTunable,
            top_n : 1..MaxTunable] :
        \/ c.enable /\ c.user_profile = "p" /\ c.api_key
        \/ c.max_candidates = 1 /\ c.top_n = 1}

NoCfg ==
    [enable |-> TRUE, user_profile |-> "unset", api_key |-> TRUE,
     max_candidates |-> 1, top_n |-> 1]

\* no configuration check at all
ConfigAlwaysOk(c) == TRUE

\* lines 240-253: enable, a non-blank user_profile and DEEPSEEK_API_KEY
ConfigOk(c) == c.enable /\ StripText(c.user_profile) # "" /\ c.api_key

Perms(n) ==
    {p \in [1..n -> 1..n] : \A i, j \in 1..n : i # j => p[i] # p[j]}

\* every order of the rows that a sort may give, before[a, b] saying that
\* rows[a] may stand before rows[b]: sort_values uses kind="quicksort", which
\* is not stable, so rows with equal keys come out in any order
Sorted(rows, before) ==
    {[i \in 1..Len(rows) |-> rows[p[i]]] : p \in
        {q \in Perms(Len(rows)) :
            \A i, j \in 1..Len(rows) : i < j => before[q[i], q[j]]}}

\* oldest first
SortByTsAscending(frame) ==
    Sorted(frame, [a, b \in 1..Len(frame) |->
                      TsGE(EffTs(frame[b]), EffTs(frame[a]))])

\* tmp.assign(_ts=ts).sort_values("_ts", ascending=False)
SortByTs(frame) ==
    Sorted(frame, [a, b \in 1..Len(frame) |->
                      TsGE(EffTs(frame[a]), EffTs(frame[b]))])

\* candidates.sort_values("_personal_score", ascending=False)
SortByScore(rows) ==
    Sorted(rows, [a, b \in 1..Len(rows) |-> rows[a].score >= rows[b].score])

\* no truncation
HeadAll(frame, n) == frame

\* tmp.head(max_candidates)
HeadCandidates(frame, n) == SubSeq(frame, 1, Min2(n, Len(frame)))

\* .head(top_n)
HeadTopN(frame, n) == SubSeq(frame, 1, Min2(n, Len(frame)))

----------------------------------------------------------------------------
(* main() *)

Cutoffs == {1, 3, 4}

MainLocalsInit ==
    /\ batch = <<>>
    /\ seen_links = {}
    /\ df = <<>>
    /\ recent = <<>>
    /\ cfg = NoCfg
    /\ candidates = <<>>
    /\ scores = <<>>
    /\ report = <<>>
    /\ outcome = "none"
    /\ calls = 0
    /\ store0 = NoStore
    /\ loaded = {}
    /\ saved = FALSE

MainInit ==
    /\ pc = "idle"
    /\ store = NoStore
    /\ prev_report = {}
    /\ written = {}
    /\ MainLocalsInit

MainIdle ==
    /\ pc = "off"
    /\ store = NoStore
    /\ prev_report = {}
    /\ written = {}
    /\ MainLocalsInit

\* personalized_recommendations called on a frame of its own
RecInit ==
    /\ pc = "recent"
    /\ store = NoStore
    /\ prev_report = {}
    /\ written = {}
    /\ batch = <<>>
    /\ seen_links = {}
    /\ df = <<>>
    /\ \E k \in 1..MaxRecent :
         \E pub \in [1..k -> {-1, 1, 2}], fet \in [1..k -> {-1, 1}] :
            recent = [i \in 1..k |->
                [id |-> i, link |-> FeedLinks[i], published |-> pub[i],
                 fetched_at |-> fet[i], summary |-> "text"]]
    /\ cfg = NoCfg
    /\ candidates = <<>>
    /\ scores = <<>>
    /\ report = <<>>
    /\ outcome = "none"
    /\ calls = 0
    /\ store0 = NoStore
    /\ loaded = {}
    /\ saved = FALSE

\* main() returns or dies: the run ends with the given outcome
Exit(o) == pc' = "exit" /\ outcome' = o

\* lines 299-303: load_today_news; store0 keeps the store as the run found it
LoadNews ==
    /\ pc = "idle"
    /\ store0' = store
    /\ \/ /\ \E S \in SUBSET (1..NumItems) : batch' = Rows(AllItems, S)
          /\ pc' = "news"
          /\ UNCHANGED outcome
       \/ /\ batch' = <<>>
          /\ Exit("no_file")
    /\ UNCHANGED <<store, seen_links, df, recent, cfg, candidates, scores,
                   report, calls, loaded, saved, prev_report, written>>

\* lines 305-312: load_seen_links, filter_unseen_items
LoadAndFilter ==
    /\ pc = "news"
    /\ loaded' = LoadSeenLinks(store)
    /\ seen_links' = loaded'
    /\ df' = FilterUnseen(batch, seen_links')
    /\ IF df' = <<>> THEN Exit("empty_batch")
       ELSE pc' = "filtered" /\ UNCHANGED outcome
    /\ UNCHANGED <<store, batch, recent, cfg, candidates, scores, report,
                   calls, store0, saved, prev_report, written>>

\* lines 314-317: load_settings, get_recent_data
GetRecent ==
    /\ pc = "filtered"
    /\ \E cutoff \in Cutoffs : recent' = GetRecentData(df, cutoff)
    /\ pc' = "recent"
    /\ UNCHANGED <<store, batch, seen_links, df, cfg, candidates, scores,
                   report, outcome, calls, store0, loaded, saved,
                   prev_report, written>>

\* lines 240-278: the configuration checks, the sort by time and the cap;
\* a None result makes main() return at lines 328-331
SelectCandidates ==
    /\ pc = "recent"
    /\ \E c \in Configs :
         /\ cfg' = c
         /\ IF ~ConfigOk(c) \/ recent = <<>>
            THEN /\ Exit("no_report")
                 /\ UNCHANGED candidates
            ELSE /\ \E tmp \in SortByTs(recent) :
                      candidates' = HeadCandidates(tmp, c.max_candidates)
                 /\ pc' = "scoring"
                 /\ UNCHANGED outcome
    /\ UNCHANGED <<store, batch, seen_links, df, recent, scores, report,
                   calls, store0, loaded, saved,
                   prev_report, written>>

\* lines 280-286: every candidate is scored through the pool; scores[i] is
\* the result for items[i], and an exception of a call is raised to main()
ScoreAll ==
    /\ pc = "scoring"
    /\ calls' = Len(candidates)
    /\ IF \E i \in 1..Len(candidates) : PromptRaises(candidates[i])
       THEN /\ Exit("raised")
            /\ UNCHANGED scores
       ELSE /\ \E resp \in [1..Len(candidates) -> SomeResponses] :
                 scores' = [i \in 1..Len(candidates) |-> ParseScore(resp[i])]
            /\ pc' = "scored"
            /\ UNCHANGED outcome
    /\ UNCHANGED <<store, batch, seen_links, df, recent, cfg, candidates,
                   report, store0, loaded, saved,
                   prev_report, written>>

\* lines 288-291: assign the scores, sort by score, keep top_n
Rank ==
    /\ pc = "scored"
    /\ LET rows == [i \in 1..Len(candidates) |->
                       [item |-> candidates[i], score |-> scores[i]]]
       IN  \E ranked \in SortByScore(rows) :
              report' = HeadTopN(ranked, cfg.top_n)
    /\ pc' = "ranked"
    /\ UNCHANGED <<store, batch, seen_links, df, recent, cfg, candidates,
                   scores, outcome, calls, store0, loaded, saved,
                   prev_report, written>>

\* lines 328-377: print the report, collect its links, save the seen set
Deliver ==
    /\ pc = "ranked"
    /\ IF report = <<>>
       THEN /\ Exit("no_report")
            /\ UNCHANGED <<seen_links, store, saved, written>>
       ELSE /\ Exit("report")
            /\ LET rec == RecommendedLinks(report)
               IN  IF rec # {}
                   THEN /\ seen_links' = MergeSeen(seen_links, rec)
                        /\ store' = SaveSeenLinks(seen_links')
                        /\ saved' = TRUE
                        /\ written' = written \cup seen_links'
                   ELSE UNCHANGED <<seen_links, store, saved, written>>
    /\ UNCHANGED <<batch, df, recent, cfg, candidates, scores, report, calls,
                   store0, loaded, prev_report>>

\* lines 391-392: the process ends; only the store outlives it
EndRun ==
    /\ pc = "exit"
    /\ pc' = "idle"
    /\ prev_report' = IF outcome = "report"
                      THEN {report[i].item.link : i \in 1..Len(report)}
                      ELSE {}
    /\ batch' = <<>>
    /\ seen_links' = {}
    /\ df' = <<>>
    /\ recent' = <<>>
    /\ cfg' = NoCfg
    /\ candidates' = <<>>
    /\ scores' = <<>>
    /\ report' = <<>>
    /\ outcome' = "none"
    /\ calls' = 0
    /\ store0' = NoStore
    /\ loaded' = {}
    /\ saved' = FALSE
    /\ UNCHANGED <<store, written>>

\* between two runs the store file becomes unreadable or loses its link
\* column: the case load_seen_links answers with the empty set
CorruptStore ==
    /\ pc = "idle"
    /\ store.kind = "ok"
    /\ store' = [kind |-> "corrupt", links |-> {}]
    /\ UNCHANGED <<pc, batch, seen_links, df, recent, cfg, candidates, scores,
                   report, outcome, calls, store0, loaded, saved,
                   prev_report, written>>

----------------------------------------------------------------------------
(* The specifications. *)

Init == ScIdle /\ PlIdle /\ MainInit

Next ==
    \/ LoadNews /\ UNCHANGED <<scoreVars, poolVars>>
    \/ LoadAndFilter /\ UNCHANGED <<scoreVars, poolVars>>
    \/ GetRecent /\ UNCHANGED <<scoreVars, poolVars>>
    \/ SelectCandidates /\ UNCHANGED <<scoreVars, poolVars>>
    \/ ScoreAll /\ UNCHANGED <<scoreVars, poolVars>>
    \/ Rank /\ UNCHANGED <<scoreVars, poolVars>>
    \/ Deliver /\ UNCHANGED <<scoreVars, poolVars>>
    \/ EndRun /\ UNCHANGED <<scoreVars, poolVars>>
    \/ CorruptStore /\ UNCHANGED <<scoreVars, poolVars>>

Spec == Init /\ [][Next]_vars

InitRecommend == ScIdle /\ PlIdle /\ RecInit

NextRecommend ==
    \/ SelectCandidates /\ UNCHANGED <<scoreVars, poolVars>>
    \/ ScoreAll /\ UNCHANGED <<scoreVars, poolVars>>
    \/ Rank /\ UNCHANGED <<scoreVars, poolVars>>

SpecRecommend == InitRecommend /\ [][NextRecommend]_vars

InitPool == ScIdle /\ PlInit /\ MainIdle

NextPool ==
    \/ PoolSubmit /\ UNCHANGED <<scoreVars, mainVars>>
    \/ (\E w \in 1..pl_workers : WorkerTake(w))
          /\ UNCHANGED <<scoreVars, mainVars>>
    \/ (\E w \in 1..pl_workers : WorkerRun(w))
          /\ UNCHANGED <<scoreVars, mainVars>>
    \/ Collect /\ UNCHANGED <<scoreVars, mainVars>>
    \/ PoolDone /\ UNCHANGED <<scoreVars, mainVars>>

SpecPool == InitPool /\ [][NextPool]_vars

InitScore == ScInit /\ PlIdle /\ MainIdle

NextScore ==
    \/ ScBuildPrompt /\ UNCHANGED <<poolVars, mainVars>>
    \/ ScCall /\ UNCHANGED <<poolVars, mainVars>>
    \/ ScParse /\ UNCHANGED <<poolVars, mainVars>>

SpecScore == InitScore /\ [][NextScore]_vars

----------------------------------------------------------------------------
(* The claims. *)

ReportItems == {report[i].item : i \in 1..Len(report)}

ReportIds == {Str(report[i].item.link) : i \in 1..Len(report)}

InRun == pc \notin {"idle", "news", "off"}

C5_NeverRemoved == store.kind = "ok" => written \subseteq store.links

\* C5, amended: the store written by a run holds every identifier that
\* load_seen_links returned at the start of that run.
C5_LoadedKept == saved => (store.kind = "ok" /\ loaded \subseteq store.links)

\* C5: a run that loaded a non-empty set has saved a larger one.
C5_Witness == saved /\ loaded # {} /\ store.links # loaded

NoReportCause ==
    \/ df = <<>>
    \/ /\ cfg # NoCfg
       /\ \/ recent = <<>>
          \/ ~cfg.enable
          \/ StripText(cfg.user_profile) = ""
          \/ ~cfg.api_key

\* C10: a run with a cause of "no report" returns without raising, calls the
\* scorer for no item and leaves the store as it found it.
C10_NoReportNoWrite ==
    (pc = "exit" /\ NoReportCause) =>
        /\ outcome \in {"no_file", "empty_batch", "no_report"}
        /\ calls = 0
        /\ ~saved
        /\ store = store0

\* C10: a run with recent items, a profile and personalization on, but no
\* API key, over a store that has content.
C10_Witness ==
    /\ pc = "exit"
    /\ recent # <<>>
    /\ cfg.enable
    /\ cfg.user_profile = "p"
    /\ ~cfg.api_key
    /\ store.kind = "ok"
    /\ store.links # {}

\* C7: the report has exactly min(top_n, number of scored candidates) rows,
\* each of them a scored candidate, none twice.
C7_BoundedOutput ==
    pc = "ranked" =>
        /\ Len(report) = Min2(cfg.top_n, Len(scores))
        /\ \A i \in 1..Len(report) :
              \E k \in 1..Len(candidates) :
                 report[i] = [item |-> candidates[k], score |-> scores[k]]
        /\ \A i, j \in 1..Len(report) : i # j => report[i] # report[j]

\* C7: more candidates were scored than top_n, and the report has top_n rows.
C7_Witness ==
    /\ pc = "ranked"
    /\ cfg.top_n < Len(scores)
    /\ Len(report) = cfg.top_n

\* C9: the candidates are the first max_candidates rows of the recent frame
\* in descending order of the effective timestamp, rows without a timestamp
\* last; they are the rows that are scored.
C9_CandidateCap ==
    pc \in {"scoring", "scored", "ranked"} =>
        /\ Len(candidates) = Min2(cfg.max_candidates, Len(recent))
        /\ Ids(candidates) \subseteq Ids(recent)
        /\ Range(candidates) \subseteq Range(recent)
        /\ Cardinality(Ids(candidates)) = Len(candidates)
        /\ \A i, j \in 1..Len(candidates) :
              i < j => TsGE(EffTs(candidates[i]), EffTs(candidates[j]))
        /\ \A c \in Range(candidates) : \A x \in Range(recent) :
              x \notin Range(candidates) => TsGE(EffTs(c), EffTs(x))
        /\ pc \in {"scored", "ranked"} =>
              calls = Len(candidates) /\ Len(scores) = Len(candidates)

\* C9: max_candidates = 1 and three recent rows with the timestamps none, 1
\* (from fetched_at) and 2: only the row of day 2 is scored.
C9_Witness ==
    /\ pc = "scored"
    /\ cfg.max_candidates = 1
    /\ Len(recent) = 3
    /\ EffTs(recent[1]) = NaT
    /\ ToDatetime(recent[2].published) = NaT
    /\ EffTs(recent[2]) = 1
    /\ EffTs(recent[3]) = 2
    /\ candidates = <<recent[3]>>
    /\ calls = 1

PosInCandidates(item) == CHOOSE k \in 1..Len(candidates) : candidates[k] = item

\* C4: the report's scores do not increase, rows with equal scores stand in
\* the order of the candidate sequence, and of two candidates with equal
\* scores across the top_n cut the earlier one is kept.
C4_StableRanking ==
    pc = "ranked" =>
        /\ \A i, j \in 1..Len(report) :
              i < j => report[i].score >= report[j].score
        /\ \A i, j \in 1..Len(report) :
              (i < j /\ report[i].score = report[j].score) =>
                 PosInCandidates(report[i].item)
                    < PosInCandidates(report[j].item)
        /\ \A i \in 1..Len(report) : \A k \in 1..Len(candidates) :
              (candidates[k] \notin ReportItems /\ scores[k] = report[i].score)
                 => PosInCandidates(report[i].item) < k

\* C3: the list of scores has one entry per item, every item was scored by
\* exactly one call, and scores[i] is the value that call returned.
C3_OrderAligned ==
    pl_pc = "done" =>
        /\ Len(pl_scores) = Len(pl_items)
        /\ \A i \in 1..Len(pl_items) :
              /\ Cardinality({n \in 1..Len(pl_calls) :
                                 pl_calls[n].item = pl_items[i]}) = 1
              /\ \E n \in 1..Len(pl_calls) :
                    /\ pl_calls[n].item = pl_items[i]
                    /\ pl_calls[n].value = pl_scores[i]

\* C3: more items than workers, the calls finished out of order with
\* different values, and the list is built.
C3_Witness ==
    /\ pl_pc = "done"
    /\ Len(pl_items) > pl_workers
    /\ pl_done_order[1] # 1
    /\ pl_scores[1] # pl_scores[2]

\* C2: no failure of one item's scoring makes personalized_recommendations
\* raise; the failed item scores 0 and every other item has its own score.
C2_ItemLocal ==
    /\ pl_pc # "raised"
    /\ pl_pc = "done" =>
          \A n \in 1..Len(pl_calls) :
             /\ (pl_calls[n].failed \/ pl_calls[n].raised) =>
                   pl_scores[pl_calls[n].item.id] = 0
             /\ pl_scores[pl_calls[n].item.id] = pl_calls[n].value

\* C8: every value score_item_with_deepseek returns lies in [0, 100].
C8_ScoreBound == sc_pc = "returned" => (0 <= sc_ret /\ sc_ret <= 100)

\* C8: the model answered text whose first number is above 100, and 100 was
\* returned.
C8_Witness ==
    /\ sc_pc = "returned"
    /\ sc_resp.kind = "text"
    /\ FirstDigits(sc_resp.content) # <<>>
    /\ ToFloat(FirstDigits(sc_resp.content), 0) > 100
    /\ sc_ret = 100

====
